---- MODULE Spec2Model ----
(***************************************************************************)
(* Model of streamlit_app.py: the link selector, the site scraper, the     *)
(* email assembler and the batch loop of the cold-mail generator.          *)
(*                                                                         *)
(* Python strings are sequences of one-character strings, so that strip,   *)
(* lower, split, title, substring search and URL parsing are computed on   *)
(* characters as the code computes them.                                   *)
(***************************************************************************)
EXTENDS Integers, Sequences, FiniteSets, TLC

VARIABLES
    pc,        \* position of the program under the current specification
    call,      \* arguments of the function applied by a function-level specification
    ret,       \* its return value
    sc,        \* locals of the running scrape_website call
    df,        \* the uploaded spreadsheet
    idx,       \* position of the batch loop in df
    results,   \* the results list of the batch loop
    log,       \* what the batch loop did for each row visited so far
    shown      \* what the page shows once the loop has ended

vars == <<pc, call, ret, sc, df, idx, results, log, shown>>

----------------------------------------------------------------------------
(* Characters and strings                                                  *)

Lowers == <<"a","b","c","d","e","f","g","h","i","j","k","l","m",
            "n","o","p","q","r","s","t","u","v","w","x","y","z">>
Uppers == <<"A","B","C","D","E","F","G","H","I","J","K","L","M",
            "N","O","P","Q","R","S","T","U","V","W","X","Y","Z">>
Digits == {"0","1","2","3","4","5","6","7","8","9"}

Range(s) == {s[i] : i \in DOMAIN s}

IsLower(c) == c \in Range(Lowers)
IsUpper(c) == c \in Range(Uppers)
IsAlpha(c) == IsLower(c) \/ IsUpper(c)

\* str.lower / str.upper on one character
LowerChar(c) == IF IsUpper(c) THEN Lowers[CHOOSE i \in DOMAIN Uppers : Uppers[i] = c] ELSE c
UpperChar(c) == IF IsLower(c) THEN Uppers[CHOOSE i \in DOMAIN Lowers : Lowers[i] = c] ELSE c

\* str.lower
Lower(s) == [i \in DOMAIN s |-> LowerChar(s[i])]

\* the characters str.strip() and str.split() treat as whitespace
IsSpace(c) == c \in {" ", "\n", "\t", "\r"}

Min(a, b) == IF a <= b THEN a ELSE b

\* s[:n] and s[n:]
Take(s, n) == SubSeq(s, 1, Min(n, Len(s)))
Drop(s, n) == SubSeq(s, Min(n, Len(s)) + 1, Len(s))

\* a local variable: x = e, then body(x); e is evaluated once
Bind(e, body(_)) == CHOOSE r \in {body(x) : x \in {e}} : TRUE

\* str.lstrip(): drop the leading whitespace
LStrip(s) ==
    Drop(s, CHOOSE k \in 0..Len(s) :
                /\ \A j \in 1..k : IsSpace(s[j])
                /\ k = Len(s) \/ ~IsSpace(s[k + 1]))

\* str.rstrip(): drop the trailing whitespace
RStrip(s) ==
    Take(s, Len(s) - CHOOSE k \in 0..Len(s) :
                         /\ \A j \in (Len(s) - k + 1)..Len(s) : IsSpace(s[j])
                         /\ k = Len(s) \/ ~IsSpace(s[Len(s) - k]))

\* str.strip()
Strip(s) == RStrip(LStrip(s))

\* str.find(c) + 1: the first position of character c in s, 0 when absent
Find(s, c) ==
    IF c \in Range(s)
    THEN CHOOSE i \in DOMAIN s : s[i] = c /\ \A j \in 1..(i - 1) : s[j] # c
    ELSE 0

\* sub in s
Contains(s, sub) ==
    \E i \in 0..(Len(s) - Len(sub)) : SubSeq(s, i + 1, i + Len(sub)) = sub

\* s.split(c)
SplitOn(s, c) ==
    LET at == {i \in DOMAIN s : s[i] = c}
        \* the position of the k-th separator; 0 before the first, Len(s)+1 after the last
        Sep(k) == IF k = 0 THEN 0
                  ELSE IF k > Cardinality(at) THEN Len(s) + 1
                  ELSE CHOOSE i \in at : Cardinality({j \in at : j < i}) = k - 1
    IN  [k \in 1..(Cardinality(at) + 1) |-> SubSeq(s, Sep(k - 1) + 1, Sep(k) - 1)]

\* sep.join(parts)
RECURSIVE Join(_, _)
Join(parts0, sep) ==
    Bind(parts0, LAMBDA parts :
        IF parts = <<>> THEN <<>>
        ELSE IF Len(parts) = 1 THEN parts[1]
        ELSE parts[1] \o sep \o Join(Tail(parts), sep))

\* n copies of character c
Rep(c, n) == [i \in 1..n |-> c]

----------------------------------------------------------------------------
(* urllib.parse, as called at lines 24-26 and 41, on URLs without ;params  *)
(* and without bracketed hosts other than an unbalanced bracket            *)

SchemeChars == Range(Lowers) \cup Range(Uppers) \cup Digits \cup {"+", "-", "."}
UsesRelative == {<<>>, <<"h", "t", "t", "p">>, <<"h", "t", "t", "p", "s">>, <<"f", "t", "p">>, <<"f", "i", "l", "e">>}
UsesNetloc == {<<>>, <<"h", "t", "t", "p">>, <<"h", "t", "t", "p", "s">>, <<"f", "t", "p">>, <<"f", "i", "l", "e">>}

IsUnsafeUrlChar(c) == c \in {"\t", "\r", "\n"}

\* _splitnetloc(url, 2): the netloc ends at the first of / ? #
NetlocEnd(url) ==
    LET ds == {i \in 3..Len(url) : url[i] \in {"/", "?", "#"}}
    IN  IF ds = {} THEN Len(url) + 1 ELSE CHOOSE i \in ds : \A j \in ds : i <= j

\* urlsplit(url, scheme)
\* the scheme, when the text before the first colon is one
HasScheme(url) ==
    LET i == Find(url, ":")
    IN  i >= 2 /\ IsAlpha(url[1]) /\ \A j \in 1..(i - 1) : url[j] \in SchemeChars

\* url.split('#', 1) then url.split('?', 1): [path, query, fragment]
SplitTail(url) ==
    LET h == Find(url, "#")
        url1 == IF h > 0 THEN Take(url, h - 1) ELSE url
        q == Find(url1, "?")
    IN  [path |-> IF q > 0 THEN Take(url1, q - 1) ELSE url1,
         query |-> IF q > 0 THEN Drop(url1, q) ELSE <<>>,
         fragment |-> IF h > 0 THEN Drop(url, h) ELSE <<>>]

UrlSplit(url0, defaultScheme) ==
    Bind(SelectSeq(LStrip(url0), LAMBDA c : ~IsUnsafeUrlChar(c)), LAMBDA url1 :
    Bind(HasScheme(url1), LAMBDA hasScheme :
    Bind(IF hasScheme THEN Drop(url1, Find(url1, ":")) ELSE url1, LAMBDA url2 :
    Bind(Take(url2, 2) = <<"/", "/">>, LAMBDA hasNetloc :
    Bind(IF hasNetloc THEN SubSeq(url2, 3, NetlocEnd(url2) - 1) ELSE <<>>, LAMBDA netloc :
    Bind(SplitTail(IF hasNetloc THEN Drop(url2, NetlocEnd(url2) - 1) ELSE url2), LAMBDA t :
        [raised |-> ("[" \in Range(netloc)) # ("]" \in Range(netloc)),  \* ValueError: Invalid IPv6 URL
         scheme |-> IF hasScheme THEN Lower(Take(url1, Find(url1, ":") - 1))
                    ELSE defaultScheme,
         netloc |-> netloc, path |-> t.path, query |-> t.query,
         fragment |-> t.fragment]))))))

\* urlunsplit
UrlUnsplit(scheme, netloc, path, query, fragment) ==
    LET u1 == IF netloc # <<>> \/ (scheme # <<>> /\ scheme \in UsesNetloc /\ Take(path, 2) # <<"/", "/">>)
              THEN <<"/", "/">> \o netloc \o
                   (IF path # <<>> /\ Head(path) # "/" THEN <<"/">> \o path ELSE path)
              ELSE path
        u2 == IF scheme # <<>> THEN scheme \o <<":">> \o u1 ELSE u1
        u3 == IF query # <<>> THEN u2 \o <<"?">> \o query ELSE u2
    IN  IF fragment # <<>> THEN u3 \o <<"#">> \o fragment ELSE u3

\* the loop of urljoin that resolves "." and ".." segments
RECURSIVE ResolveSegments(_, _)
ResolveSegments(segments0, resolved0) ==
    Bind(segments0, LAMBDA segments : Bind(resolved0, LAMBDA resolved :
        IF segments = <<>> THEN resolved
        ELSE IF Head(segments) = <<".", ".">>
        THEN ResolveSegments(Tail(segments), Take(resolved, Len(resolved) - 1))
        ELSE IF Head(segments) = <<".">>
        THEN ResolveSegments(Tail(segments), resolved)
        ELSE ResolveSegments(Tail(segments), Append(resolved, Head(segments)))))

\* segments[1:-1] = filter(None, segments[1:-1])
FilterInner(segments) ==
    IF Len(segments) <= 2 THEN segments
    ELSE <<Head(segments)>>
         \o SelectSeq(SubSeq(segments, 2, Len(segments) - 1), LAMBDA s : s # <<>>)
         \o <<segments[Len(segments)]>>

\* urljoin(base, url): [raised, url]
\* base_parts: the directory part of the base path
BaseParts(bpath) ==
    Bind(SplitOn(bpath, "/"), LAMBDA parts :
        IF parts[Len(parts)] # <<>> THEN Take(parts, Len(parts) - 1) ELSE parts)

\* the path urljoin resolves for a relative reference with a path
ResolvedPath(bpath, path) ==
    Bind(IF Take(path, 1) = <<"/">> THEN SplitOn(path, "/")
         ELSE FilterInner(BaseParts(bpath) \o SplitOn(path, "/")), LAMBDA segments :
    Bind(ResolveSegments(segments, <<>>), LAMBDA resolved :
        Join(IF segments[Len(segments)] \in {<<".">>, <<".", ".">>}
             THEN Append(resolved, <<>>) ELSE resolved, <<"/">>)))

UrlJoin(base, url) ==
    IF base = <<>> THEN [raised |-> FALSE, url |-> url]
    ELSE IF url = <<>> THEN [raised |-> FALSE, url |-> base]
    ELSE
    Bind(UrlSplit(base, <<>>), LAMBDA b :
    Bind(UrlSplit(url, b.scheme), LAMBDA u :
    Bind(IF u.netloc # <<>> THEN u.netloc ELSE b.netloc, LAMBDA netloc :
    Bind(IF u.path = <<>> THEN <<>> ELSE ResolvedPath(b.path, u.path), LAMBDA joined :
        IF b.raised \/ u.raised THEN [raised |-> TRUE, url |-> <<>>]
        ELSE IF u.scheme # b.scheme \/ u.scheme \notin UsesRelative
        THEN [raised |-> FALSE, url |-> url]
        ELSE IF u.scheme \in UsesNetloc /\ u.netloc # <<>>
        THEN [raised |-> FALSE,
              url |-> UrlUnsplit(u.scheme, u.netloc, u.path, u.query, u.fragment)]
        ELSE IF u.path = <<>>
        THEN [raised |-> FALSE,
              url |-> UrlUnsplit(u.scheme, netloc, b.path,
                                 IF u.query # <<>> THEN u.query ELSE b.query, u.fragment)]
        ELSE [raised |-> FALSE,
              url |-> UrlUnsplit(u.scheme, netloc,
                                 IF joined = <<>> THEN <<"/">> ELSE joined,
                                 u.query, u.fragment)]))))

\* urlparse(url).netloc: [raised, netloc]
Netloc(url) ==
    LET p == UrlSplit(url, <<>>) IN [raised |-> p.raised, netloc |-> p.netloc]

----------------------------------------------------------------------------
(* Link selector, lines 23-46                                              *)

\* is_internal_link(base_url, link): [raised, value]
IsInternalLink(base_url, link) ==
    Bind(Netloc(base_url), LAMBDA base_domain :
    Bind(UrlJoin(base_url, link), LAMBDA target :
    Bind(Netloc(target.url), LAMBDA tn :
        IF base_domain.raised \/ target.raised \/ tn.raised
        THEN [raised |-> TRUE, value |-> FALSE]
        ELSE [raised |-> FALSE, value |-> tn.netloc = base_domain.netloc])))

blacklist ==
    <<<<"k", "o", "n", "t", "a", "k", "t">>, <<"p", "r", "i", "v", "a", "c", "y">>, <<"p", "o", "l", "i", "t", "y", "k", "a">>, <<"r", "e", "g", "u", "l", "a", "m", "i", "n">>, <<"t", "e", "r", "m", "s">>,
      <<"c", "o", "o", "k", "i", "e", "s">>, <<"k", "a", "r", "i", "e", "r", "a">>, <<"p", "r", "a", "c", "a">>, <<"c", "a", "r", "e", "e", "r">>, <<"l", "o", "g", "i", "n">>, <<"l", "o", "g", "o", "w", "a", "n", "i", "e">>>>

\* is_irrelevant_link(link_text)
IsIrrelevantLink(link_text) ==
    Bind(Lower(link_text), LAMBDA lowered :
        \E k \in DOMAIN blacklist : Contains(lowered, blacklist[k]))

\* the exit test at the bottom of the loop body of find_relevant_links
LinksFull(links, max_links) == Len(links) >= max_links

\* the condition of line 40, given the value of is_internal_link
PassesFilter(internal, a) ==
    internal /\ ~IsIrrelevantLink(a.href \o <<" ">> \o Strip(a.text))

\* lines 41-43: the URL is appended unless it is already listed or is the base URL
WithLink(base_url, a, links) ==
    Bind(UrlJoin(base_url, a.href).url, LAMBDA url :
        IF url \notin Range(links) /\ url # base_url THEN Append(links, url) ELSE links)

\* the loop of find_relevant_links over the anchors that carry an href:
\* [raised, links]
RECURSIVE LinkLoop(_, _, _, _)
LinkLoop(base_url, anchors0, max_links, links0) ==
    Bind(anchors0, LAMBDA anchors : Bind(links0, LAMBDA links :
        IF anchors = <<>> THEN [raised |-> FALSE, links |-> links]
        ELSE Bind(IsInternalLink(base_url, Head(anchors).href), LAMBDA internal :
             IF internal.raised THEN [raised |-> TRUE, links |-> <<>>]
             ELSE Bind(IF PassesFilter(internal.value, Head(anchors))
                       THEN WithLink(base_url, Head(anchors), links)
                       ELSE links, LAMBDA links1 :
                      IF LinksFull(links1, max_links)
                      THEN [raised |-> FALSE, links |-> links1]
                      ELSE LinkLoop(base_url, Tail(anchors), max_links, links1)))))

\* find_relevant_links(base_url, soup, max_links); soup.find_all("a", href=True)
\* keeps the anchors that have an href attribute
FindRelevantLinks(base_url, anchors, max_links) ==
    LinkLoop(base_url, SelectSeq(anchors, LAMBDA a : a.hasHref), max_links, <<>>)

----------------------------------------------------------------------------
(* Text extractor, lines 14-21. A parsed page is the sequence of its       *)
(* elements [tag, text, hasHref, href]; text is the element's text node.   *)

\* the minimum length of a text node that is kept (len(t) > 20)
MinTextLen == 20

IsScriptTag(tag) == tag \in {"script", "style", "noscript"}

\* get_visible_text(html)
\* soup.stripped_strings once script, style and noscript are removed
StrippedStrings(html) ==
    Bind(SelectSeq(html, LAMBDA e : ~IsScriptTag(e.tag)), LAMBDA visible :
        SelectSeq([i \in DOMAIN visible |-> Strip(visible[i].text)], LAMBDA t : t # <<>>))

\* get_visible_text(html)
GetVisibleText(html) ==
    Join(SelectSeq(StrippedStrings(html), LAMBDA t : t # <<>> /\ Len(t) > MinTextLen), <<" ">>)

\* soup.find_all("a", ...): the anchors of the page, in document order
Anchors(html) == SelectSeq(html, LAMBDA e : e.tag = "a")

----------------------------------------------------------------------------
(* The pages and the HTTP responses the model draws from                   *)

P(text) == [tag |-> "p", text |-> text, hasHref |-> FALSE, href |-> <<>>]
A(href, text) == [tag |-> "a", text |-> text, hasHref |-> TRUE, href |-> href]
ANoHref(text) == [tag |-> "a", text |-> text, hasHref |-> FALSE, href |-> <<>>]
Script(text) == [tag |-> "script", text |-> text, hasHref |-> FALSE, href |-> <<>>]

AAbout    == A(<<"/", "a", "b", "o", "u", "t">>, <<" ", "O", " ", "n", "a", "s", " ">>)
AAbout2   == A(<<"/", "a", "b", "o", "u", "t">>, <<"A", "b", "o", "u", "t">>)
AKontakt  == A(<<"/", "K", "o", "n", "t", "a", "k", "t">>, <<"N", "a", "p", "i", "s", "z">>)
AOfertaBl == A(<<"/", "o", "f", "e", "r", "t", "a">>, <<"L", "O", "G", "I", "N">>)
AOferta   == A(<<"/", "o", "f", "e", "r", "t", "a">>, <<"O", "f", "e", "r", "t", "a">>)
AExtern   == A(<<"h", "t", "t", "p", ":", "/", "/", "b", ".", "p", "l", "/", "x">>, <<"P", "a", "r", "t", "n", "e", "r">>)
ATop      == A(<<"#", "t", "o", "p">>, <<"T", "o", "p">>)
AHome     == A(<<>>, <<"H", "o", "m", "e">>)
ANews     == A(<<"n", "e", "w", "s">>, <<"N", "e", "w", "s">>)
ATeam     == A(<<"/", "/", "a", ".", "p", "l", "/", "t", "e", "a", "m">>, <<"T", "e", "a", "m">>)
ABad      == A(<<"h", "t", "t", "p", ":", "/", "/", "[", "b", "a", "d">>, <<"x">>)
ADeep     == A(<<"/", "d", "e", "e", "p">>, <<"D", "e", "e", "p">>)

\* a seed page with more qualifying links than any max_pages of the model follows
PageRich ==
    <<P(Rep("a", 120)), AAbout, AKontakt, Script(Rep("s", 30)), AOfertaBl, AOferta,
      AExtern, ATop, P(<<"s", "h", "o", "r", "t">>), AAbout2, ANews, ATeam, ADeep>>
\* a seed page whose own text is below the 100 characters the batch loop asks for
PageThin == <<P(Rep("b", 60)), AHome, ANoHref(<<"M", "e", "n", "u">>), AAbout, AOferta>>
\* a seed page with an href urljoin rejects (ValueError: Invalid IPv6 URL)
PageBroken == <<P(Rep("a", 120)), AAbout, ABad, AOferta>>
\* a subpage, with a link of its own
SubPage == <<P(Rep("c", 60)), ADeep, ANews>>

SeedPages == {PageRich, PageThin, PageBroken}
SubPages == {SubPage}

\* requests.get(...) followed by raise_for_status(): the request raises, the status
\* is an error, or the page arrives
Failures == {[kind |-> "exception", html |-> <<>>], [kind |-> "status_error", html |-> <<>>]}
Ok(html) == [kind |-> "ok", html |-> html]
\* for a subpage the two failures are told apart nowhere: lines 59-60 raise
\* into the same except clause
SubFailures == {[kind |-> "exception", html |-> <<>>]}

\* requests raises MissingSchema / InvalidSchema / InvalidURL before sending
\* anything for a URL that is not http(s)://host...
IsHttpUrl(url) ==
    LET u == UrlSplit(url, <<>>)
    IN  ~u.raised /\ u.scheme \in {<<"h", "t", "t", "p">>, <<"h", "t", "t", "p", "s">>} /\ u.netloc # <<>>

SeedResponses(url) ==
    IF IsHttpUrl(url) THEN Failures \cup {Ok(h) : h \in SeedPages}
    ELSE {[kind |-> "exception", html |-> <<>>]}
SubResponses(url) ==
    IF IsHttpUrl(url) THEN SubFailures \cup {Ok(h) : h \in SubPages}
    ELSE {[kind |-> "exception", html |-> <<>>]}

----------------------------------------------------------------------------
(* Site scraper, lines 48-69, one action per HTTP request                  *)

\* the default of max_pages
DefaultMaxPages == 4

None == [none |-> TRUE, text |-> <<>>]
Text(t) == [none |-> FALSE, text |-> t]

\* the locals of scrape_website (url, max_pages, subpage_links as links, the
\* position i of the loop in it, texts, the returned value as result), the
\* requests made so far (gets) and the responses received (seed, subs)
NoScrape ==
    [stage |-> "idle", url |-> <<>>, max_pages |-> 0, links |-> <<>>, i |-> 0,
     texts |-> <<>>, gets |-> <<>>, result |-> None, seed |-> <<>>, subs |-> <<>>]

\* the call scrape_website(url, max_pages)
ScrapeCall(url, max_pages) ==
    [NoScrape EXCEPT !.stage = "seed", !.url = url, !.max_pages = max_pages]

\* max_links=max_pages-1
MaxLinksFor(max_pages) == max_pages - 1

\* what the outer except clause returns
SeedFailureResult == None

\* lines 50-56: the seed request, its text and its links; any exception ends
\* the call at the outer except clause
ScrapeSeed ==
    /\ sc.stage = "seed"
    /\ \E resp \in SeedResponses(sc.url) :
         \E found \in {FindRelevantLinks(sc.url, Anchors(resp.html), MaxLinksFor(sc.max_pages))} :
             sc' = IF resp.kind # "ok" \/ found.raised
                   THEN [sc EXCEPT !.stage = "returned", !.gets = <<sc.url>>,
                                   !.seed = <<resp>>,
                                   !.result = SeedFailureResult]
                   ELSE [sc EXCEPT !.stage = "subpages", !.gets = <<sc.url>>,
                                   !.seed = <<resp>>,
                                   !.texts = <<GetVisibleText(resp.html)>>,
                                   !.links = found.links, !.i = 1]
    /\ UNCHANGED <<pc, call, ret, df, idx, results, log, shown>>

\* TextsAfterSubpage with a failed subpage adding an empty text
TextsAfterSubpage_KeepsFailed(texts, resp) ==
    Append(texts, IF resp.kind = "ok" THEN GetVisibleText(resp.html) ELSE <<>>)

\* the texts list after the request for one subpage: the inner except clause
\* only skips the subpage
TextsAfterSubpage(texts, resp) ==
    IF resp.kind = "ok" THEN Append(texts, GetVisibleText(resp.html)) ELSE texts

\* lines 57-66: one iteration of the loop over subpage_links
ScrapeSubpage ==
    /\ sc.stage = "subpages"
    /\ sc.i <= Len(sc.links)
    /\ \E resp \in SubResponses(sc.links[sc.i]) :
         sc' = [sc EXCEPT !.gets = Append(sc.gets, sc.links[sc.i]),
                          !.subs = Append(sc.subs, resp),
                          !.texts = TextsAfterSubpage(sc.texts, resp),
                          !.i = sc.i + 1]
    /\ UNCHANGED <<pc, call, ret, df, idx, results, log, shown>>

\* line 67: "\n".join(texts)
JoinTexts(texts) == Join(texts, <<"\n">>)

ScrapeReturn ==
    /\ sc.stage = "subpages"
    /\ sc.i > Len(sc.links)
    /\ sc' = [sc EXCEPT !.stage = "returned", !.result = Text(JoinTexts(sc.texts))]
    /\ UNCHANGED <<pc, call, ret, df, idx, results, log, shown>>

----------------------------------------------------------------------------
(* Email assembler, lines 124-132                                          *)

\* the first element of str.split(): [raised, value]; an all-whitespace string
\* has no first word (IndexError)
UntilSpace(s) ==
    Take(s, CHOOSE k \in 0..Len(s) :
                /\ \A j \in 1..k : ~IsSpace(s[j])
                /\ k = Len(s) \/ IsSpace(s[k + 1]))

FirstWord(s) ==
    IF LStrip(s) = <<>> THEN [raised |-> TRUE, value |-> <<>>]
    ELSE [raised |-> FALSE, value |-> UntilSpace(LStrip(s))]

\* str.title(): a letter after a letter is lowered, any other letter is raised
Title(s) ==
    [i \in DOMAIN s |-> IF i > 1 /\ IsAlpha(s[i - 1]) THEN LowerChar(s[i]) ELSE UpperChar(s[i])]

\* PartSeparator with a single newline: no blank line between the parts
PartSeparator_SingleNewline == <<"\n">>

\* the separator the template puts between two parts
PartSeparator == <<"\n", "\n">>

\* the template of lines 126-131
EmailTemplate(first_name, opening, compliment, ending) ==
    <<"S", "z", "a", "n", "o", "w", "n", "y", " ", "P", "a", "n", "i", "e", " ">> \o first_name \o <<",">> \o PartSeparator
    \o Strip(opening) \o PartSeparator
    \o Strip(compliment) \o PartSeparator
    \o Strip(ending)

\* build_full_email(person, opening, compliment, ending): [raised, value]
BuildFullEmail(person, opening, compliment, ending) ==
    LET w == FirstWord(person)
    IN  IF w.raised THEN [raised |-> TRUE, value |-> <<>>]
        ELSE [raised |-> FALSE,
              value |-> EmailTemplate(Title(w.value), opening, compliment, ending)]

----------------------------------------------------------------------------
(* Spreadsheet rows. A row maps column names to cells; read_excel gives    *)
(* NaN for an empty cell.                                                  *)

NaN == [kind |-> "nan", s |-> <<>>]
StrCell(s) == [kind |-> "str", s |-> s]

\* Column names of lines 153-155 and 168; the person column is written here
\* in ASCII (the source spells it with an e-ogonek), it is only used as a key.
CompanyColumn == "Nazwa firmy"
PersonColumn == "Imie i nazwisko"
WebsiteColumn == "Strona internetowa"
EmailColumn == "Personalizowany email"

\* str(x) of a cell: str(float('nan')) is 'nan'
PyStr(cell) == IF cell.kind = "nan" THEN <<"n", "a", "n">> ELSE cell.s

\* row.get(col, "")
RowGet(row, col) == IF col \in DOMAIN row THEN row[col] ELSE StrCell(<<>>)

\* str(row.get(col, "")).strip(), lines 153-155
Field(row, col) == Strip(PyStr(RowGet(row, col)))

\* line 156: not (company and person and website)
FieldsIncomplete(row) ==
    ~(Field(row, CompanyColumn) # <<>> /\ Field(row, PersonColumn) # <<>>
      /\ Field(row, WebsiteColumn) # <<>>)

\* ResultRow with the row rebuilt from the three fields the loop reads
ResultRow_KnownFieldsOnly(row, full_email) ==
    [k \in (DOMAIN row \cap {CompanyColumn, PersonColumn, WebsiteColumn}) \cup {EmailColumn} |->
        IF k = EmailColumn THEN StrCell(full_email) ELSE row[k]]

\* the dict of lines 166-169: {**row, "Personalizowany email": full_email}
ResultRow(row, full_email) ==
    [k \in DOMAIN row \cup {EmailColumn} |->
        IF k = EmailColumn THEN StrCell(full_email) ELSE row[k]]

----------------------------------------------------------------------------
(* Batch loop, lines 146-188                                               *)

\* the least length of scraped text the loop accepts
MinScrapedLen == 100

\* ScrapeUnusable without the length test
ScrapeUnusable_NoneOnly(scraped) == scraped.none

\* line 160: scraped is None or len(scraped) < 100
ScrapeUnusable(scraped) == scraped.none \/ Len(scraped.text) < MinScrapedLen

\* line 164: the name generate_gpt_compliment is bound nowhere in the file, so
\* the call raises NameError before any request is made
GenerateGptCompliment(company, scraped) ==
    [raised |-> TRUE, exc |-> "NameError", requests |-> 0, value |-> <<>>]

\* the sidebar texts, at their defaults (lines 139-140)
opening == <<" ">>
ending == <<>>

\* The log has one entry per row the loop has visited: the row's position
\* (row), the messages shown for it (msgs), whether a page was fetched
\* for it (fetched), what scrape_website returned (scrape), whether
\* line 164 was reached (gen), how many LLM requests were made (llm) and
\* whether results.append ran (appended).
SkippedEntry(i) ==
    [row |-> i, msgs |-> <<>>, fetched |-> FALSE, scrape |-> "not_called", gen |-> FALSE,
     llm |-> 0, appended |-> FALSE]
RunningEntry(i) ==
    [row |-> i, msgs |-> <<"info">>, fetched |-> FALSE, scrape |-> "running", gen |-> FALSE,
     llm |-> 0, appended |-> FALSE]

\* how the log names the value scrape_website returned
ScrapeClass(scraped) ==
    IF scraped.none THEN "none"
    ELSE IF Len(scraped.text) < 100 THEN "short" ELSE "ok"

\* whether the scrape has received a page
PageFetched(s) ==
    \/ \E k \in DOMAIN s.seed : s.seed[k].kind = "ok"
    \/ \E k \in DOMAIN s.subs : s.subs[k].kind = "ok"

CurrentRow == df[idx + 1]

\* lines 152-159: the next row; an incomplete row is skipped, a complete one
\* is announced and scraped
RowCheck ==
    /\ pc = "loop"
    /\ idx < Len(df)
    /\ IF FieldsIncomplete(CurrentRow)
       THEN /\ idx' = idx + 1
            /\ log' = Append(log, SkippedEntry(idx + 1))
            /\ UNCHANGED <<pc, sc>>
       ELSE /\ pc' = "scraping"
            /\ sc' = ScrapeCall(Field(CurrentRow, WebsiteColumn), DefaultMaxPages)
            /\ log' = Append(log, RunningEntry(idx + 1))
            /\ UNCHANGED idx
    /\ UNCHANGED <<call, ret, df, results, shown>>

\* AfterFailure with break in place of continue: the loop ends at the failing row
AfterFailure_Break(i) == Len(df)

\* where the loop goes after a row that failed (both handlers say continue)
AfterFailure(i) == i + 1

\* lines 160-173: the returned text is checked, then the try block runs
AfterScrape ==
    /\ pc = "scraping"
    /\ sc.stage = "returned"
    /\ LET scraped == sc.result
           company == Field(CurrentRow, CompanyColumn)
           person == Field(CurrentRow, PersonColumn)
           g == GenerateGptCompliment(company, scraped)
           e == BuildFullEmail(person, opening, g.value, ending)
           entry == [log[Len(log)] EXCEPT !.fetched = PageFetched(sc),
                                          !.scrape = ScrapeClass(scraped)]
       IN  IF ScrapeUnusable(scraped)
           THEN /\ log' = [log EXCEPT ![Len(log)] =
                               [entry EXCEPT !.msgs = Append(@, "warning")]]
                /\ idx' = AfterFailure(idx)
                /\ UNCHANGED results
           ELSE IF g.raised \/ e.raised
           THEN /\ log' = [log EXCEPT ![Len(log)] =
                               [entry EXCEPT !.msgs = Append(@, "error"), !.gen = TRUE,
                                             !.llm = g.requests]]
                /\ idx' = AfterFailure(idx)
                /\ UNCHANGED results
           ELSE /\ log' = [log EXCEPT ![Len(log)] =
                               [entry EXCEPT !.gen = TRUE, !.llm = g.requests,
                                             !.appended = TRUE]]
                /\ idx' = idx + 1
                /\ results' = Append(results, ResultRow(CurrentRow, e.value))
    /\ pc' = "loop"
    /\ sc' = NoScrape
    /\ UNCHANGED <<call, ret, df, shown>>

\* Outcome without the test of results
Outcome_AlwaysSuccess(res) ==
    <<[kind |-> "success", count |-> Len(res)], [kind |-> "dataframe", count |-> Len(res)],
      [kind |-> "download_button", count |-> Len(res)]>>

\* lines 174-188: what is shown after the loop
Outcome(res) ==
    IF res # <<>>
    THEN <<[kind |-> "success", count |-> Len(res)], [kind |-> "dataframe", count |-> Len(res)],
           [kind |-> "download_button", count |-> Len(res)]>>
    ELSE <<[kind |-> "error", count |-> 0]>>

Render ==
    /\ pc = "loop"
    /\ idx = Len(df)
    /\ shown' = Outcome(results)
    /\ pc' = "done"
    /\ UNCHANGED <<call, ret, sc, df, idx, results, log>>

----------------------------------------------------------------------------
(* The spreadsheets the model draws from                                   *)

\* the most rows of a spreadsheet
MaxRows == 2

Row(company, person, website) ==
    (CompanyColumn :> company) @@ (PersonColumn :> person) @@ (WebsiteColumn :> website)

RowOk == Row(StrCell(<<"A", "c", "m", "e">>), StrCell(<<"j", "a", "n", " ", "k", "o", "w", "a", "l", "s", "k", "i">>), StrCell(<<" ", "h", "t", "t", "p", ":", "/", "/", "a", ".", "p", "l", " ">>))
RowEmptyCompany == Row(NaN, StrCell(<<"E", "w", "a", " ", "N", "o", "w", "a", "k">>), StrCell(<<"h", "t", "t", "p", ":", "/", "/", "a", ".", "p", "l">>))
RowBlankPerson == Row(StrCell(<<"B", "e", "t", "a">>), StrCell(<<" ", "\t">>), StrCell(<<"h", "t", "t", "p", ":", "/", "/", "a", ".", "p", "l">>))
\* a row of a spreadsheet that has no website column
RowNoWebsiteColumn == (CompanyColumn :> StrCell(<<"D", "e", "l", "t", "a">>)) @@ (PersonColumn :> StrCell(<<"O", "l", "a", " ", "K", "o", "t">>))

Rows == {RowOk, RowEmptyCompany, RowBlankPerson, RowNoWebsiteColumn}

SeqsUpTo(S, n) == UNION {[1..k -> S] : k \in 0..n}

\* a spreadsheet has one set of columns
Spreadsheets ==
    {d \in SeqsUpTo(Rows, MaxRows) : \A i, j \in DOMAIN d : DOMAIN d[i] = DOMAIN d[j]}

NoCall == [fn |-> "none"]

\* The state when "Generuj maile" is pressed on an uploaded spreadsheet
\* (lines 146-151): the batch loop is modelled from its entry.
Init ==
    /\ pc = "loop"
    /\ df \in Spreadsheets
    /\ idx = 0
    /\ results = <<>>
    /\ log = <<>>
    /\ shown = <<>>
    /\ sc = NoScrape
    /\ call = NoCall
    /\ ret = NoCall

Next == RowCheck \/ ScrapeSeed \/ ScrapeSubpage \/ ScrapeReturn \/ AfterScrape \/ Render

Spec == Init /\ [][Next]_vars

\* the loop is one thread that runs each step as soon as it is due
FairSpec == Spec /\ WF_vars(Next)

----------------------------------------------------------------------------
(* scrape_website called on its own, with any max_pages >= 1               *)

\* the largest max_pages the model calls scrape_website with
MaxPages == 4

SeedUrls == {<<"h", "t", "t", "p", ":", "/", "/", "a", ".", "p", "l">>, <<"h", "t", "t", "p", ":", "/", "/", "a", ".", "p", "l", "/", "o", "f", "e", "r", "t", "a">>, <<"a", ".", "p", "l">>}

InitScrape ==
    /\ pc = "scrape_website"
    /\ sc \in {ScrapeCall(u, m) : u \in SeedUrls, m \in 1..MaxPages}
    /\ df = <<>>
    /\ idx = 0
    /\ results = <<>>
    /\ log = <<>>
    /\ shown = <<>>
    /\ call = NoCall
    /\ ret = NoCall

NextScrape == ScrapeSeed \/ ScrapeSubpage \/ ScrapeReturn

SpecScrape == InitScrape /\ [][NextScrape]_vars

----------------------------------------------------------------------------
(* find_relevant_links called on its own                                   *)

\* the most anchors of a page handed to find_relevant_links, and the largest max_links
MaxAnchors == 3

LinkAnchors == {AAbout, AKontakt, AOfertaBl, AOferta, AExtern, ATop, AHome, ANoHref(<<"M", "e", "n", "u">>)}
BaseUrls == {<<"h", "t", "t", "p", ":", "/", "/", "a", ".", "p", "l">>, <<"h", "t", "t", "p", ":", "/", "/", "a", ".", "p", "l", "/", "o", "f", "e", "r", "t", "a">>}

InitLinks ==
    /\ pc = "find_relevant_links"
    /\ call \in {[fn |-> "find_relevant_links", base_url |-> b, anchors |-> a, max_links |-> m] :
                    b \in BaseUrls, a \in SeqsUpTo(LinkAnchors, MaxAnchors), m \in 0..MaxAnchors}
    /\ ret = NoCall
    /\ sc = NoScrape
    /\ df = <<>>
    /\ idx = 0
    /\ results = <<>>
    /\ log = <<>>
    /\ shown = <<>>

CallFindRelevantLinks ==
    /\ pc = "find_relevant_links"
    /\ ret' = FindRelevantLinks(call.base_url, call.anchors, call.max_links)
    /\ pc' = "returned"
    /\ UNCHANGED <<call, sc, df, idx, results, log, shown>>

NextLinks == CallFindRelevantLinks

SpecLinks == InitLinks /\ [][NextLinks]_vars

----------------------------------------------------------------------------
(* build_full_email called on its own                                      *)

Persons == {<<"j", "a", "n", " ", "k", "o", "w", "a", "l", "s", "k", "i">>, <<" ", "A", "N", "N", "A", " ", " ", "n", "o", "w", "a", "k", " ">>, <<"o", "'", "n", "e", "i", "l", " ", "x">>, <<"e", "w", "a">>, <<"m", "c", "D", "o", "n", "a", "l", "d", "\t", "j", "r">>, <<" ", "\n">>}
Openings == {<<" ">>, <<"D", "z", "i", "e", "n", " ", "d", "o", "b", "r", "y", ".", "\n">>, <<"\n", "\n", "A", "\n", "\n", "B", " ">>}
Compliments == {<<" ", "S", "w", "i", "e", "t", "n", "a", " ", "f", "i", "r", "m", "a", ".", " ">>, <<"X", "\n", "\n">>, <<>>}
Endings == {<<>>, <<"P", "o", "z", "d", "r", "a", "w", "i", "a", "m", " ", "\n">>, <<"\t", "Z", " ", "p", "o", "w", "a", "z", "a", "n", "i", "e", "m", ",", "\n", "C", "M", "T">>}

InitEmail ==
    /\ pc = "build_full_email"
    /\ call \in {[fn |-> "build_full_email", person |-> p, opening |-> o, compliment |-> c,
                  ending |-> e] :
                    p \in Persons, o \in Openings, c \in Compliments, e \in Endings}
    /\ ret = NoCall
    /\ sc = NoScrape
    /\ df = <<>>
    /\ idx = 0
    /\ results = <<>>
    /\ log = <<>>
    /\ shown = <<>>

CallBuildFullEmail ==
    /\ pc = "build_full_email"
    /\ ret' = BuildFullEmail(call.person, call.opening, call.compliment, call.ending)
    /\ pc' = "returned"
    /\ UNCHANGED <<call, sc, df, idx, results, log, shown>>

NextEmail == CallBuildFullEmail

SpecEmail == InitEmail /\ [][NextEmail]_vars

----------------------------------------------------------------------------
(* The result row of lines 166-169 built on its own                        *)

Cells == {NaN, StrCell(<<"A", "c", "m", "e">>), StrCell(<<"s", "t", "a", "r", "y", " ", "e", "m", "a", "i", "l">>)}
ColumnSets ==
    {{CompanyColumn, PersonColumn, WebsiteColumn},
     {CompanyColumn, PersonColumn, WebsiteColumn, "Uwagi"},
     {CompanyColumn, PersonColumn, WebsiteColumn, EmailColumn},
     {CompanyColumn, WebsiteColumn}}
InputRows == UNION {[cols -> Cells] : cols \in ColumnSets}
Emails == {<<"S", "z", "a", "n", "o", "w", "n", "y", " ", "P", "a", "n", "i", "e", " ", "J", "a", "n", ",", "\n", "\n", "\n", "\n", "X", "\n", "\n">>, <<"s", "t", "a", "r", "y", " ", "e", "m", "a", "i", "l">>}

InitRow ==
    /\ pc = "result_row"
    /\ call \in {[fn |-> "result_row", row |-> r, full_email |-> e] :
                    r \in InputRows, e \in Emails}
    /\ ret = NoCall
    /\ sc = NoScrape
    /\ df = <<>>
    /\ idx = 0
    /\ results = <<>>
    /\ log = <<>>
    /\ shown = <<>>

BuildResultRow ==
    /\ pc = "result_row"
    /\ ret' = ResultRow(call.row, call.full_email)
    /\ pc' = "returned"
    /\ UNCHANGED <<call, sc, df, idx, results, log, shown>>

NextRow == BuildResultRow

SpecRow == InitRow /\ [][NextRow]_vars

----------------------------------------------------------------------------
(* The script from its first line. Lines 119-122 stand at module level,    *)
(* between the definitions: they read scraped_text and client, which are   *)
(* bound nowhere, so the script stops there with NameError and the page    *)
(* of lines 135-188 is never drawn.                                        *)

ModuleLevelCalls == [raised |-> TRUE, exc |-> "NameError"]

RunScript ==
    /\ pc = "script"
    /\ pc' = IF ModuleLevelCalls.raised THEN "stopped" ELSE "loop"
    /\ UNCHANGED <<call, ret, sc, df, idx, results, log, shown>>

InitScript ==
    /\ pc = "script"
    /\ df \in Spreadsheets
    /\ idx = 0
    /\ results = <<>>
    /\ log = <<>>
    /\ shown = <<>>
    /\ sc = NoScrape
    /\ call = NoCall
    /\ ret = NoCall

SpecScript == InitScript /\ [][RunScript \/ Next]_vars

----------------------------------------------------------------------------
(* Claims about the batch loop                                             *)

RequiredColumns == {CompanyColumn, PersonColumn, WebsiteColumn}

\* a required field is missing: column absent, cell empty, or cell blank
FieldMissing(row, col) ==
    \/ col \notin DOMAIN row
    \/ row[col].kind = "nan"
    \/ \A k \in DOMAIN row[col].s : IsSpace(row[col].s[k])

RowMissingField(row) == \E col \in RequiredColumns : FieldMissing(row, col)

\* a page has been fetched for row i
RowFetched(i) ==
    \/ log[i].fetched
    \/ i = Len(log) /\ pc = "scraping" /\ PageFetched(sc)

\* the rows the loop has finished with
Finished(i) == i \in DOMAIN log /\ i <= idx

\* C1: a row with a missing required field (column absent, cell empty or
\* cell blank) is skipped: no page is fetched for it, no LLM request is made
\* for it, and it adds no result row.
C1_MissingFieldSkipped ==
    \A i \in DOMAIN log :
        RowMissingField(df[i]) =>
            /\ ~RowFetched(i)
            /\ ~log[i].gen /\ log[i].llm = 0
            /\ ~log[i].appended

\* C2: when the loop has ended, every row that has all three fields and
\* whose scrape returned at least 100 characters has added exactly one row
\* to results, so results is not empty if there is such a row.
C2_GoodRowYieldsResult ==
    pc = "done" =>
        \A i \in DOMAIN log :
            (~RowMissingField(df[i]) /\ log[i].scrape = "ok") =>
                log[i].appended /\ results # <<>>

\* the entries of the log that failed: the scrape was unusable, or generation raised
ScrapeFailed(i) == log[i].scrape \in {"none", "short"}
GenerationFailed(i) == log[i].gen /\ "error" \in Range(log[i].msgs)

C6_Visits ==
    /\ \A i \in DOMAIN log : log[i].row = i
    /\ Len(log) = IF pc = "scraping" THEN idx + 1 ELSE idx
    /\ idx <= Len(df)
    /\ pc = "done" => Len(log) = Len(df)
    /\ \A i \in DOMAIN log :
           Finished(i) /\ (ScrapeFailed(i) \/ GenerationFailed(i)) => ~log[i].appended

\* a step that ends a row in failure changes neither results nor the entries of other rows
C6_FailureStep ==
    (idx' = idx + 1 /\ (log'[idx'].scrape \in {"none", "short"}
                        \/ (log'[idx'].gen /\ "error" \in Range(log'[idx'].msgs)))) =>
        /\ results' = results
        /\ \A i \in 1..idx : log'[i] = log[i]
        /\ pc' = "loop"

\* C6: a row whose scrape fails or whose generation raises is dropped and
\* the loop goes on with the next row: the loop visits the rows one by one
\* in order, a failing row changes neither results nor what was recorded for
\* other rows, and the loop reaches its end having visited every row once.
C6_SkipOnError ==
    /\ []C6_Visits
    /\ [][C6_FailureStep]_vars
    /\ <>(pc = "done" /\ Len(log) = Len(df))

\* a batch that ran to its end through a failed scrape and then a failed generation
C6_Witness ==
    /\ pc = "done"
    /\ \E i, j \in DOMAIN log : i < j /\ ScrapeFailed(i) /\ GenerationFailed(j)

\* C9: for each row the scrape is over before generation starts, generation
\* is reached and an LLM request made only for a row whose scrape returned at
\* least 100 characters, and a row whose scrape returned None or fewer than
\* 100 characters gets a warning and no result row.
C9_ScrapeBeforeGeneration ==
    \A i \in DOMAIN log :
        /\ (log[i].gen \/ log[i].llm > 0 \/ log[i].appended) => log[i].scrape = "ok"
        /\ ScrapeFailed(i) =>
               /\ log[i].msgs = <<"info", "warning">>
               /\ ~log[i].gen /\ log[i].llm = 0 /\ ~log[i].appended

\* one row dropped for a short scrape and another that went on to generation
C9_Witness ==
    \E i, j \in DOMAIN log : log[i].scrape = "short" /\ log[j].scrape = "ok" /\ log[j].gen

\* the rows of df that added a result row, in the order visited
AppendedRows == SelectSeq([i \in DOMAIN log |-> log[i]], LAMBDA e : e.appended)

\* C10: each visited row has added at most one result row, so results is
\* never longer than the number of rows visited, and results keeps the order
\* of the input rows; when the loop has ended exactly one outcome is shown,
\* the success message with the download button and the count of results
\* if results is not empty, otherwise the error.
C10_ResultsAndOutcome ==
    /\ Len(results) = Len(AppendedRows)
    /\ Len(results) <= Len(log)
    /\ \A k \in DOMAIN results :
           \A c \in DOMAIN df[AppendedRows[k].row] :
               c # EmailColumn => results[k][c] = df[AppendedRows[k].row][c]
    /\ \A k, l \in DOMAIN AppendedRows : k < l => AppendedRows[k].row < AppendedRows[l].row
    /\ pc # "done" => shown = <<>>
    /\ pc = "done" =>
           LET kinds == {shown[k].kind : k \in DOMAIN shown}
           IN  /\ ("success" \in kinds) # ("error" \in kinds)
               /\ "success" \in kinds <=> results # <<>>
               /\ "success" \in kinds <=> "download_button" \in kinds
               /\ \A k \in DOMAIN shown :
                      shown[k].kind = "success" => shown[k].count = Len(results)
               /\ Cardinality({k \in DOMAIN shown : shown[k].kind \in {"success", "error"}}) = 1

\* a batch that visited rows and ended
C10_Witness ==
    /\ pc = "done"
    /\ Len(log) >= 2
    /\ \E k \in DOMAIN shown : shown[k].kind = "error"

----------------------------------------------------------------------------
(* Claims about scrape_website                                             *)

\* the anchors of the seed page that was received
SeedAnchors == IF sc.seed = <<>> THEN <<>> ELSE Anchors(sc.seed[1].html)

\* C4: one call of scrape_website(url, max_pages) makes at most max_pages
\* GET requests (at most 4 with the default): the first for the seed URL,
\* every later one for a link found on the seed page.
C4_AtMostMaxPagesRequests ==
    /\ Len(sc.gets) <= sc.max_pages
    /\ sc.max_pages = DefaultMaxPages => Len(sc.gets) <= 4
    /\ sc.gets # <<>> => sc.gets[1] = sc.url
    /\ \A k \in 2..Len(sc.gets) :
           \E j \in DOMAIN SeedAnchors :
               /\ SeedAnchors[j].hasHref
               /\ UrlJoin(sc.url, SeedAnchors[j].href).url = sc.gets[k]

\* the seed request failed: it raised, or the status was an error
SeedFetchFailed == sc.seed[1].kind # "ok"

\* discovering the links of the received seed page raises
LinkDiscoveryRaises ==
    FindRelevantLinks(sc.url, SeedAnchors, sc.max_pages - 1).raised

\* the text of the seed page, then the text of each subpage that arrived, in order
ExpectedTexts ==
    <<GetVisibleText(sc.seed[1].html)>>
    \o [k \in DOMAIN SelectSeq(sc.subs, LAMBDA r : r.kind = "ok") |->
            GetVisibleText(SelectSeq(sc.subs, LAMBDA r : r.kind = "ok")[k].html)]

\* what C8 says of a scrape that did not return None
C8_TextOfReturn ==
    /\ sc.result.text = Join(ExpectedTexts, <<"\n">>)
    /\ sc.gets = <<sc.url>> \o sc.links
    /\ Len(sc.subs) = Len(sc.links)

\* C8 as stated: None is returned exactly when the seed request fails;
\* otherwise the seed text comes first, then the text of each subpage whose
\* request succeeded, in link order, joined by newlines, and a failed subpage
\* only leaves its own text out.
C8_NoneIffSeedFetchFails ==
    sc.stage = "returned" =>
        /\ sc.result.none <=> SeedFetchFailed
        /\ ~sc.result.none => C8_TextOfReturn

\* C8 as amended: None is returned exactly when the seed request fails or
\* the links of the received seed page cannot be discovered because an href
\* makes urljoin raise; otherwise as stated.
C8_NoneIffSeedPhaseRaises ==
    sc.stage = "returned" =>
        /\ sc.result.none <=> (SeedFetchFailed \/ LinkDiscoveryRaises)
        /\ ~sc.result.none => C8_TextOfReturn

\* a scrape that returned text although a subpage failed before a later one arrived
C8_Witness ==
    /\ sc.stage = "returned"
    /\ ~sc.result.none
    /\ \E k, l \in DOMAIN sc.subs : k < l /\ sc.subs[k].kind # "ok" /\ sc.subs[l].kind = "ok"

----------------------------------------------------------------------------
(* Claims about find_relevant_links                                        *)

\* neither the href nor the link text of the anchor contains a blacklisted keyword
NotBlacklisted(a) ==
    \A k \in DOMAIN blacklist :
        ~Contains(Lower(a.href), blacklist[k]) /\ ~Contains(Lower(a.text), blacklist[k])

\* the anchors at which url qualifies: same netloc as the base, not blacklisted
QualifyingAt(url) ==
    {j \in DOMAIN call.anchors :
        /\ call.anchors[j].hasHref
        /\ UrlJoin(call.base_url, call.anchors[j].href).url = url
        /\ NotBlacklisted(call.anchors[j])}

FirstQualifying(url) == CHOOSE j \in QualifyingAt(url) : \A m \in QualifyingAt(url) : j <= m

\* C5: find_relevant_links returns at most max_links URLs, each on the
\* netloc of the base URL, each from an anchor without a blacklisted keyword
\* in href or text, in the order of their first qualifying anchors.
C5_LinksWithinLimit ==
    (pc = "returned" /\ ~ret.raised) =>
        /\ Len(ret.links) <= call.max_links
        /\ \A k \in DOMAIN ret.links :
               /\ Netloc(ret.links[k]).netloc = Netloc(call.base_url).netloc
               /\ QualifyingAt(ret.links[k]) # {}
        /\ \A k, l \in DOMAIN ret.links :
               k < l => FirstQualifying(ret.links[k]) < FirstQualifying(ret.links[l])

----------------------------------------------------------------------------
(* Claims about build_full_email                                           *)

HasNonSpace(s) == \E k \in DOMAIN s : ~IsSpace(s[k])

\* s without its leading and trailing whitespace
Stripped(s) ==
    IF ~HasNonSpace(s) THEN <<>>
    ELSE SubSeq(s, CHOOSE i \in DOMAIN s : ~IsSpace(s[i]) /\ \A j \in 1..(i - 1) : IsSpace(s[j]),
                   CHOOSE i \in DOMAIN s : ~IsSpace(s[i]) /\ \A j \in (i + 1)..Len(s) : IsSpace(s[j]))

\* w is the first word of s
IsFirstWordOf(w, s) ==
    /\ w # <<>>
    /\ \A k \in DOMAIN w : ~IsSpace(w[k])
    /\ \E i \in 0..(Len(s) - Len(w)) :
           /\ \A j \in 1..i : IsSpace(s[j])
           /\ SubSeq(s, i + 1, i + Len(w)) = w
           /\ i + Len(w) = Len(s) \/ IsSpace(s[i + Len(w) + 1])

\* t is w title-cased: the same letters, upper case exactly at the start of each run of letters
IsTitleOf(t, w) ==
    /\ Lower(t) = Lower(w)
    /\ \A k \in DOMAIN t :
           IsAlpha(t[k]) => (IsUpper(t[k]) <=> (k = 1 \/ ~IsAlpha(t[k - 1])))

\* C7: for a person with a non-whitespace character, build_full_email
\* returns "Szanowny Panie <first word of person, title-cased>," then the
\* stripped opening, the stripped compliment and the stripped ending, in that
\* order, consecutive parts separated by one blank line, nothing else added.
C7_EmailLayout ==
    (pc = "returned" /\ HasNonSpace(call.person)) =>
        /\ ~ret.raised
        /\ \E n \in 1..Len(call.person) :
               LET name == SubSeq(ret.value, 16, 15 + n)
               IN  /\ Len(ret.value) >= 15 + n
                   /\ \E w \in {SubSeq(call.person, i, i + n - 1) : i \in 1..(Len(call.person) - n + 1)} :
                          IsFirstWordOf(w, call.person) /\ IsTitleOf(name, w)
                   /\ ret.value = <<"S", "z", "a", "n", "o", "w", "n", "y", " ", "P", "a", "n", "i", "e", " ">> \o name \o <<",", "\n", "\n">>
                                  \o Stripped(call.opening) \o <<"\n", "\n">>
                                  \o Stripped(call.compliment) \o <<"\n", "\n">>
                                  \o Stripped(call.ending)

\* an email for a person written with stray spaces and capitals, the opening left at its default
C7_Witness ==
    /\ pc = "returned"
    /\ call.person = <<" ", "A", "N", "N", "A", " ", " ", "n", "o", "w", "a", "k", " ">>
    /\ call.opening = <<" ">>
    /\ call.compliment = <<" ", "S", "w", "i", "e", "t", "n", "a", " ", "f", "i", "r", "m", "a", ".", " ">>
    /\ ~ret.raised
    /\ ret.value = <<"S", "z", "a", "n", "o", "w", "n", "y", " ", "P", "a", "n", "i", "e", " ", "A", "n", "n", "a", ",", "\n", "\n", "\n", "\n", "S", "w", "i", "e", "t", "n", "a", " ", "f", "i", "r", "m", "a", ".", "\n", "\n">>

----------------------------------------------------------------------------
(* Claims about the result row                                             *)

====
